---- MODULE Spec2Model ----
(***************************************************************************)
(* The SERP-TES pallet (src/src/lib.rs): the per-block hook on_initialize, *)
(* the adjustment gate on_block_with_price, the price classification       *)
(* serp_elast and the fixed-point supply formula calculate_supply_change,  *)
(* together with the ledger calls expand_supply / contract_supply that the *)
(* pallet's tests (src/src/tests.rs) exercise.                             *)
(***************************************************************************)
EXTENDS Integers, Naturals, Sequences, FiniteSets, TLC

\* ------------------------------------------------------------------ bounds
MaxBlock == 2
MaxPrice == 3
MaxBaseUnit == 2
MaxFrequency == 2
MaxIssuance == 3
MaxGenesis == 1
MaxAmount == 1
MaxNumerator == 6
MaxSupply == 6

\* --------------------------------------------------------------- constants
\* type Fix = FixedU128<U64>: 64 fractional bits (and 64 integer bits).
FRAC_NBITS == 64

\* The currencies of the ledger the tests use.
Currencies == {"JUSD", "SETT"}

\* The currency whose supply serp_elast reads and adjusts ("SettCurrency").
SettCurrency == "SETT"

VARIABLES
    BaseUnit,                 \* T::BaseUnit::get()
    ElastAdjustmentFrequency, \* T::ElastAdjustmentFrequency::get()
    block,                    \* number of the last block initialized
    total_issuance,           \* ledger: total issuance of each currency
    reserved_balance,         \* ledger: SERPER's reserved balance of each currency
    panicked,                 \* a panic aborted the block's execution
    last,                     \* what the last operation did (calls it made, its result)
    calc                      \* a stand-alone evaluation of calculate_supply_change

vars == <<BaseUnit, ElastAdjustmentFrequency, block, total_issuance,
          reserved_balance, panicked, last, calc>>

\* ------------------------------------------- calculate_supply_change
\* The fractional bits are handled eight at a time, as digits of radix 2^8.
Radix == 2^8
FracDigits == FRAC_NBITS \div 8

\* floor(B * supply / 2^FRAC_NBITS), where B = floor(r * 2^FRAC_NBITS / d) are
\* the fractional bits of the quotient whose remainder so far is r (r < d).
\* Digit k of B is produced by one step of long division; the product is
\* summed from the least significant digit:
\*     F_k = (digit_k * supply + F_(k+1)) \div Radix.
RECURSIVE FracMulInt(_, _, _, _)
FracMulInt(r, d, supply, k) ==
    IF k > FracDigits \/ r = 0 THEN 0   \* a zero remainder leaves only zero digits
    ELSE LET digit == (Radix * r) \div d
             rest  == FracMulInt((Radix * r) % d, d, supply, k + 1)
         IN  (digit * supply + rest) \div Radix

\* fraction = Fix::from_num(numerator) / Fix::from_num(denominator) - Fix::from_num(1)
\* fraction.saturating_mul_int(supply as u128).to_num::<u64>()
\* The division panics on a zero divisor.  The quotient is truncated to
\* FRAC_NBITS fractional bits before the multiplication.  For numerator >=
\* denominator and arguments below 2^23 the product is below 2^64, so
\* saturating_mul_int does not saturate and to_num::<u64> fits.
calculate_supply_change(numerator, denominator, supply) ==
    IF denominator = 0
    THEN [panic |-> TRUE, value |-> 0]
    ELSE [panic |-> FALSE,
          value |-> ((numerator \div denominator) - 1) * supply
                    + FracMulInt(numerator % denominator, denominator, supply, 1)]

\* The width of the result type, u64.
U64_NBITS == 64

\* Whether x fits the result type: its binary length is at most U64_NBITS.
RECURSIVE BitLength(_)
BitLength(x) == IF x = 0 THEN 0 ELSE 1 + BitLength(x \div 2)
FitsU64(x) == BitLength(x) <= U64_NBITS

\* The exact rational (numerator / denominator - 1) * supply, rounded toward zero.
ExactChange(numerator, denominator, supply) ==
    ((numerator - denominator) * supply) \div denominator

\* ------------------------------------------------------------------ ledger
\* The ledger as the pallet sees it: a record of the two maps.
Ledger == [total_issuance |-> total_issuance, reserved_balance |-> reserved_balance]

\* expand_supply(currency_id, expand_by): mints expand_by of the currency.
\* tests.rs, expand_supply_should_work: 400_000 -> 440_000 after expanding by 40_000.
expand_supply(L, currency_id, expand_by) ==
    [ok |-> TRUE,
     L  |-> [L EXCEPT !.total_issuance[currency_id] = @ + expand_by]]

\* Mutant of contract_supply: burns without debiting SERPER's reserved balance.
contract_supply_keeps_reserve(L, currency_id, contract_by) ==
    IF L.reserved_balance[currency_id] < contract_by
    THEN [ok |-> FALSE, L |-> L]
    ELSE [ok |-> TRUE,
          L  |-> [L EXCEPT !.total_issuance[currency_id] = @ - contract_by]]

\* contract_supply(currency_id, contract_by): burns contract_by of the currency
\* out of SERPER's reserved balance; rejected when the reserve does not cover it.
\* tests.rs, contract_supply_should_work: reserved 1_000_000 -> 960_000 and
\* total issuance 1_400_000 -> 1_360_000 after contracting by 40_000.
contract_supply(L, currency_id, contract_by) ==
    IF L.reserved_balance[currency_id] < contract_by
    THEN [ok |-> FALSE, L |-> L]
    ELSE [ok |-> TRUE,
          L  |-> [L EXCEPT !.total_issuance[currency_id] = @ - contract_by,
                           !.reserved_balance[currency_id] = @ - contract_by]]

\* --------------------------------------------------------------- serp_elast
\* What one call of serp_elast did (elast): its DispatchResult, the ledger it left, the
\* number of total_issuance reads, and the calls it made, in order.
Outcome(result, L, reads, calc_calls, ledger_calls) ==
    [elast |-> TRUE, result |-> result, L |-> L, issuance_reads |-> reads,
     calc_calls |-> calc_calls, ledger_calls |-> ledger_calls]

\* One of the two adjusting match arms: read the supply, compute the change
\* from (numerator, denominator), and hand it to the ledger call `op`; a
\* ledger error is returned to the caller (the `?`).
Adjust(L, numerator, denominator, op) ==
    LET supply == L.total_issuance[SettCurrency]
        change == calculate_supply_change(numerator, denominator, supply)
        cc     == <<[numerator |-> numerator, denominator |-> denominator,
                     supply |-> supply, panic |-> change.panic,
                     value |-> change.value]>>
        r      == IF op = "contract_supply"
                  THEN contract_supply(L, SettCurrency, change.value)
                  ELSE expand_supply(L, SettCurrency, change.value)
    IN  IF change.panic
        THEN Outcome("Panic", L, 1, cc, <<>>)
        ELSE Outcome(IF r.ok THEN "Ok" ELSE "LedgerError", r.L, 1, cc,
                     <<[op |-> op, currency |-> SettCurrency,
                        amount |-> change.value, ok |-> r.ok]>>)

\* Mutant of serp_elast: the `0 =>` arm is missing.
serp_elast_no_zero_arm(L, price) ==
    IF price > BaseUnit THEN Adjust(L, price, BaseUnit, "contract_supply")
    ELSE IF price < BaseUnit THEN Adjust(L, BaseUnit, price, "expand_supply")
    ELSE Outcome("Ok", L, 0, <<>>, <<>>)

\* Mutant of serp_elast: the first guard is `price >= BaseUnit`.
serp_elast_at_peg_adjusts(L, price) ==
    IF price = 0 THEN Outcome("ZeroPrice", L, 0, <<>>, <<>>)
    ELSE IF price >= BaseUnit THEN Adjust(L, price, BaseUnit, "contract_supply")
    ELSE IF price < BaseUnit THEN Adjust(L, BaseUnit, price, "expand_supply")
    ELSE Outcome("Ok", L, 0, <<>>, <<>>)

\* serp_elast: the match on the price, arm by arm.
serp_elast(L, price) ==
    IF price = 0 THEN Outcome("ZeroPrice", L, 0, <<>>, <<>>)
    ELSE IF price > BaseUnit THEN Adjust(L, price, BaseUnit, "contract_supply")
    ELSE IF price < BaseUnit THEN Adjust(L, BaseUnit, price, "expand_supply")
    ELSE Outcome("Ok", L, 0, <<>>, <<>>)

\* Mutant of on_block_with_price: the frequency gate is missing.
on_block_with_price_ungated(L, n, price) ==
    serp_elast(L, price)

\* on_block_with_price: serp_elast on the blocks that are multiples of the
\* adjustment frequency, Ok(()) on the others.
on_block_with_price(L, n, price) ==
    IF n % ElastAdjustmentFrequency = 0
    THEN serp_elast(L, price)
    ELSE [Outcome("Ok", L, 0, <<>>, <<>>) EXCEPT !.elast = FALSE]

\* on_initialize: reads the price, then on_block_with_price; an error is logged
\* and dropped (unwrap_or_else).
on_initialize(L, n, price) ==
    LET o == on_block_with_price(L, n, price)
    IN  [op |-> "on_initialize", block |-> n, price |-> price,
         get_price_calls |-> 1, elast |-> o.elast, result |-> o.result,
         issuance_reads |-> o.issuance_reads, calc_calls |-> o.calc_calls,
         ledger_calls |-> o.ledger_calls,
         logged |-> o.result \in {"ZeroPrice", "LedgerError"},
         L |-> o.L]

\* ------------------------------------------------------------ specification
NoCalc == [numerator |-> 0, denominator |-> 0, supply |-> 0, done |-> FALSE,
           panic |-> FALSE, value |-> 0]

\* What `last` holds for a direct ledger call.
LedgerCall(op, currency_id, amount, ok, L) ==
    [op |-> op, block |-> block, price |-> 0, get_price_calls |-> 0,
     elast |-> FALSE, result |-> IF ok THEN "Ok" ELSE "LedgerError",
     issuance_reads |-> 0, calc_calls |-> <<>>,
     ledger_calls |-> <<[op |-> op, currency |-> currency_id,
                         amount |-> amount, ok |-> ok]>>,
     logged |-> FALSE, L |-> L]

Genesis ==
    [op |-> "genesis", block |-> 0, price |-> 0, get_price_calls |-> 0,
     elast |-> FALSE, result |-> "Ok", issuance_reads |-> 0, calc_calls |-> <<>>,
     ledger_calls |-> <<>>, logged |-> FALSE, L |-> Ledger]

\* The runtime is built with some BaseUnit and some non-zero adjustment
\* frequency (with a zero frequency `block % frequency` panics in the first
\* block, so no block is ever initialized); genesis endows the currencies.
Init ==
    /\ BaseUnit \in 0..MaxBaseUnit
    /\ ElastAdjustmentFrequency \in 1..MaxFrequency
    /\ block = 0
    /\ total_issuance \in [Currencies -> 0..MaxGenesis]
    /\ reserved_balance = [c \in Currencies |-> 0]
    /\ panicked = FALSE
    /\ last = Genesis
    /\ calc = NoCalc

SetLedger(L) ==
    /\ total_issuance' = L.total_issuance
    /\ reserved_balance' = L.reserved_balance

\* The block hook, with the price the oracle returns for this block.
OnInitialize ==
    /\ ~panicked
    /\ block < MaxBlock
    /\ \E price \in 0..MaxPrice :
         LET o == on_initialize(Ledger, block + 1, price)
         IN  /\ o.L.total_issuance[SettCurrency] <= MaxIssuance
             /\ block' = block + 1
             /\ panicked' = (o.result = "Panic")
             /\ SetLedger(o.L)
             /\ last' = o
    /\ UNCHANGED <<BaseUnit, ElastAdjustmentFrequency, calc>>

\* expand_supply called directly, as the tests do.
ExpandSupply ==
    /\ ~panicked
    /\ \E c \in Currencies, x \in 1..MaxAmount :
         LET r == expand_supply(Ledger, c, x)
         IN  /\ r.L.total_issuance[c] <= MaxIssuance
             /\ SetLedger(r.L)
             /\ last' = LedgerCall("expand_supply", c, x, r.ok, r.L)
    /\ UNCHANGED <<BaseUnit, ElastAdjustmentFrequency, block, panicked, calc>>

\* contract_supply called directly, as the tests do.
ContractSupply ==
    /\ ~panicked
    /\ \E c \in Currencies, x \in 1..MaxAmount :
         LET r == contract_supply(Ledger, c, x)
         IN  /\ SetLedger(r.L)
             /\ last' = LedgerCall("contract_supply", c, x, r.ok, r.L)
    /\ UNCHANGED <<BaseUnit, ElastAdjustmentFrequency, block, panicked, calc>>

\* SERPER reserves x of its balance of a currency (tests.rs: Stp258Serp::reserve).
Reserve ==
    /\ ~panicked
    /\ \E c \in Currencies, x \in 1..MaxAmount :
         /\ reserved_balance[c] + x <= total_issuance[c]
         /\ reserved_balance' = [reserved_balance EXCEPT ![c] = @ + x]
         /\ last' = LedgerCall("reserve", c, x, TRUE,
                               [total_issuance |-> total_issuance,
                                reserved_balance |-> reserved_balance'])
    /\ UNCHANGED <<BaseUnit, ElastAdjustmentFrequency, block, total_issuance,
                   panicked, calc>>

Next == OnInitialize \/ ExpandSupply \/ ContractSupply \/ Reserve

Spec == Init /\ [][Next]_vars

CalcInputs ==
    { t \in (1..MaxNumerator) \X (0..MaxNumerator) \X (0..MaxSupply) : t[1] > t[2] }
    \cup { <<1100, 1000, 1000000>>, <<1000, 900, 1000000>> }

CalcInit ==
    /\ BaseUnit = 1
    /\ ElastAdjustmentFrequency = 1
    /\ block = 0
    /\ total_issuance = [c \in Currencies |-> 0]
    /\ reserved_balance = [c \in Currencies |-> 0]
    /\ panicked = FALSE
    /\ last = Genesis
    /\ \E t \in CalcInputs :
           calc = [numerator |-> t[1], denominator |-> t[2], supply |-> t[3],
                   done |-> FALSE, panic |-> FALSE, value |-> 0]

Calculate ==
    /\ ~calc.done
    /\ LET r == calculate_supply_change(calc.numerator, calc.denominator, calc.supply)
       IN  calc' = [calc EXCEPT !.done = TRUE, !.panic = r.panic, !.value = r.value]
    /\ UNCHANGED <<BaseUnit, ElastAdjustmentFrequency, block, total_issuance,
                   reserved_balance, panicked, last>>

CalcNext == Calculate

CalcSpec == CalcInit /\ [][CalcNext]_vars

\* ------------------------------------------------------------------- claims
\* The last operation was the block hook / the block hook ran serp_elast.
Tick == last.op = "on_initialize"
Adjusting == Tick /\ last.elast

\* This step is a run of the block hook (only the hook advances the block).
TickStep == block' # block
LedgerUnchanged == UNCHANGED <<total_issuance, reserved_balance>>

CallsOf(op) == { i \in DOMAIN last.ledger_calls : last.ledger_calls[i].op = op }

\* C1: for non-zero price and base_unit, serp_elast expands the supply when
\* price > base_unit and never calls contract_supply, and contracts it when
\* price < base_unit and never calls expand_supply.
C1_DirectionFollowsDeviation ==
    (Adjusting /\ last.price # 0 /\ BaseUnit # 0 /\ last.price # BaseUnit) =>
        /\ last.price > BaseUnit =>
               CallsOf("expand_supply") # {} /\ CallsOf("contract_supply") = {}
        /\ last.price < BaseUnit =>
               CallsOf("contract_supply") # {} /\ CallsOf("expand_supply") = {}

\* C2: a call of serp_elast with price = 0 ends in the ZeroPrice error, reads
\* no total issuance, evaluates no calculate_supply_change, calls neither
\* expand_supply nor contract_supply, and leaves the ledger unchanged.
C2_ZeroPriceRejected ==
    [][ (TickStep /\ last'.elast /\ last'.price = 0) =>
            /\ last'.result = "ZeroPrice"
            /\ last'.issuance_reads = 0
            /\ last'.calc_calls = <<>>
            /\ last'.ledger_calls = <<>>
            /\ LedgerUnchanged ]_vars

C2_Witness ==
    Adjusting /\ last.price = 0 /\ last.result = "ZeroPrice" /\ BaseUnit > 0
    /\ total_issuance[SettCurrency] > 0

\* C3: a call of serp_elast with price = base_unit > 0 computes no supply
\* change, calls neither expand_supply nor contract_supply, leaves total
\* issuance and balances unchanged, and returns success.
C3_AtPegNoOp ==
    [][ (TickStep /\ last'.elast /\ last'.price = BaseUnit /\ BaseUnit > 0) =>
            /\ last'.result = "Ok"
            /\ last'.calc_calls = <<>>
            /\ last'.ledger_calls = <<>>
            /\ LedgerUnchanged ]_vars

C3_Witness ==
    Adjusting /\ last.price = BaseUnit /\ BaseUnit > 0 /\ last.result = "Ok"
    /\ total_issuance[SettCurrency] > 0

\* C4 (as stated): on a block that is not a multiple of the adjustment
\* frequency the hook returns success, calls neither the price oracle nor the
\* ledger, and leaves the state unchanged; and serp_elast runs on exactly the
\* blocks that are multiples of the frequency.
C4_IdleTickCallsNothing ==
    [][ TickStep =>
            /\ (last'.elast <=> block' % ElastAdjustmentFrequency = 0)
            /\ block' % ElastAdjustmentFrequency # 0 =>
                   /\ last'.result = "Ok"
                   /\ last'.get_price_calls = 0
                   /\ last'.issuance_reads = 0
                   /\ last'.ledger_calls = <<>>
                   /\ LedgerUnchanged ]_vars

\* C4 (amended): on a block that is not a multiple of the adjustment frequency
\* the hook reads the price oracle once, returns success, makes no call to the
\* ledger and leaves the ledger unchanged; and serp_elast runs on exactly the
\* blocks that are multiples of the frequency.
C4_IdleTickCallsNoLedger ==
    [][ TickStep =>
            /\ (last'.elast <=> block' % ElastAdjustmentFrequency = 0)
            /\ last'.get_price_calls = 1
            /\ block' % ElastAdjustmentFrequency # 0 =>
                   /\ last'.result = "Ok"
                   /\ last'.issuance_reads = 0
                   /\ last'.calc_calls = <<>>
                   /\ last'.ledger_calls = <<>>
                   /\ LedgerUnchanged ]_vars

C4_Witness ==
    /\ Tick /\ ~last.elast /\ last.block % ElastAdjustmentFrequency # 0
    /\ last.price # 0 /\ last.price # BaseUnit /\ BaseUnit > 0
    /\ total_issuance[SettCurrency] > 0

\* C6: for price # 0 and price # base_unit the magnitude of the supply change
\* is the exact rational (max / min - 1) * total_issuance rounded toward zero
\* (1100 against 1000 on 1_000_000 gives 100_000; 900 gives 111_111).
C6_ExactMagnitude ==
    (calc.done /\ calc.denominator > 0) =>
        calc.value = ExactChange(calc.numerator, calc.denominator, calc.supply)

\* C7: for numerator > denominator > 0 calculate_supply_change does not abort,
\* and its result is the largest u64 when the exact value
\* (numerator / denominator - 1) * supply exceeds it, and the truncated exact
\* value otherwise.
C7_SaturatingExact ==
    (calc.done /\ calc.numerator > calc.denominator /\ calc.denominator > 0) =>
        LET exact == ExactChange(calc.numerator, calc.denominator, calc.supply)
        IN  /\ ~calc.panic
            /\ FitsU64(exact) => calc.value = exact

\* C8: no adjustment reaches the ratio division with a zero divisor: no call
\* calculate_supply_change(price, 0, supply) occurs on any block.
C8_NoZeroDivisor ==
    \A i \in DOMAIN last.calc_calls : last.calc_calls[i].denominator # 0

C10_BurnWithinSupply ==
    Adjusting =>
        \A i \in CallsOf("contract_supply") :
            \A j \in DOMAIN last.calc_calls :
                last.ledger_calls[i].amount <= last.calc_calls[j].supply

====
